---- MODULE Spec2Model ----
(***************************************************************************)
(* ArchiDeathLink (src/death.py): the relay between a local Archipelago    *)
(* client and the remote server, the DeathLink send path, the durable      *)
(* queue file and the dispatcher, as one state machine.                    *)
(*                                                                         *)
(* Text is modelled as sequences of one-character strings so that the      *)
(* queue file's write (join with newlines) and read (split into lines,     *)
(* strip, drop blanks) are computed as the code computes them.             *)
(***************************************************************************)
EXTENDS Integers, Sequences, FiniteSets, TLC

(***************************************************************************)
(* Bounds of the model.                                                    *)
(***************************************************************************)
\* longest queue (in entries) the queue specification starts from
MaxInitQueue == 1
\* Enqueue/Dequeue calls made by the queue specification
MaxQueueOps == 3

(***************************************************************************)
(* Text.                                                                   *)
(***************************************************************************)
NL == "\n"
SP == " "
Whitespace == {NL, SP}

NameA   == <<"a">>
NameB   == <<"b">>
Blank   == <<>>
Padded  == <<SP, "a">>
TwoLine == <<"a", NL, "b">>

\* contributor names a control-surface request can carry (request.query "user")
Names == {NameA, NameB, Blank, Padded, TwoLine}

\* counts a caller can pass to enqueue_deathlinks
Counts == {-5, 0, 1, 2}

RECURSIVE LStrip(_)
LStrip(s) ==
    IF s = <<>> THEN <<>>
    ELSE IF Head(s) \in Whitespace THEN LStrip(Tail(s)) ELSE s

RECURSIVE RStrip(_)
RStrip(s) ==
    IF s = <<>> THEN <<>>
    ELSE IF s[Len(s)] \in Whitespace THEN RStrip(SubSeq(s, 1, Len(s) - 1)) ELSE s

\* str.strip()
Strip(s) == RStrip(LStrip(s))

\* "for line in f": the lines of a text, each with its newline removed by
\* the strip that follows; the text after the last newline is a line too
RECURSIVE SplitLines(_, _)
SplitLines(text, cur) ==
    IF text = <<>> THEN (IF cur = <<>> THEN <<>> ELSE <<cur>>)
    ELSE IF Head(text) = NL THEN <<cur>> \o SplitLines(Tail(text), <<>>)
    ELSE SplitLines(Tail(text), Append(cur, Head(text)))

RECURSIVE NonBlankStripped(_)
NonBlankStripped(lines) ==
    IF lines = <<>> THEN <<>>
    ELSE IF Strip(Head(lines)) = <<>> THEN NonBlankStripped(Tail(lines))
    ELSE <<Strip(Head(lines))>> \o NonBlankStripped(Tail(lines))

\* "\n".join(queue)
RECURSIVE Join(_)
Join(q) ==
    IF q = <<>> THEN <<>>
    ELSE IF Len(q) = 1 THEN Head(q)
    ELSE Head(q) \o <<NL>> \o Join(Tail(q))

\* the sequences over S of length at most n
RECURSIVE SeqsUpTo(_, _)
SeqsUpTo(S, n) ==
    IF n = 0 THEN {<<>>}
    ELSE SeqsUpTo(S, n - 1) \cup
         {Append(q, x) : q \in {p \in SeqsUpTo(S, n - 1) : Len(p) = n - 1}, x \in S}

\* [name] * k
RECURSIVE Copies(_, _)
Copies(name, k) == IF k <= 0 THEN <<>> ELSE <<name>> \o Copies(name, k - 1)

Max(a, b) == IF a >= b THEN a ELSE b

(***************************************************************************)
(* The queue file: exists is os.path.exists, text its content.             *)
(***************************************************************************)
NoFile == [exists |-> FALSE, text |-> <<>>]
FileOf(text) == [exists |-> TRUE, text |-> text]

\* the list both helpers read: [] when the file is missing, else the
\* stripped non-blank lines
ReadQueue(file) ==
    IF file.exists THEN NonBlankStripped(SplitLines(file.text, <<>>)) ELSE <<>>

\* enqueue_deathlinks(name, count): the file it writes and the value it returns
enqueue_deathlinks(file, name, count) ==
    LET queue == ReadQueue(file) \o Copies(name, Max(0, count))
    IN  [file |-> FileOf(Join(queue)), ret |-> Len(queue)]

\* a dequeue that takes the newest entry: queue.pop()
dequeue_newest(file) ==
    LET queue == ReadQueue(file)
    IN  IF queue = <<>>
        THEN [file |-> file, some |-> FALSE, name |-> <<>>, remaining |-> 0]
        ELSE [file |-> FileOf(Join(SubSeq(queue, 1, Len(queue) - 1))), some |-> TRUE,
              name |-> queue[Len(queue)], remaining |-> Len(queue) - 1]

\* a dequeue that takes the length before the pop: remaining counts the
\* entry it returns
dequeue_counting_head(file) ==
    LET queue == ReadQueue(file)
    IN  IF queue = <<>>
        THEN [file |-> file, some |-> FALSE, name |-> <<>>, remaining |-> 0]
        ELSE [file |-> FileOf(Join(Tail(queue))), some |-> TRUE,
              name |-> Head(queue), remaining |-> Len(queue)]

\* dequeue_deathlink(): (None, 0) on an empty list without writing, else the
\* head, the rewritten file and the remaining length
dequeue_deathlink(file) ==
    LET queue == ReadQueue(file)
    IN  IF queue = <<>>
        THEN [file |-> file, some |-> FALSE, name |-> <<>>, remaining |-> 0]
        ELSE [file |-> FileOf(Join(Tail(queue))), some |-> TRUE,
              name |-> Head(queue), remaining |-> Len(queue) - 1]

(***************************************************************************)
(* Python values that are not strings, as they can arrive in a JSON field. *)
(* A string is a sequence of one-character strings; these are not.         *)
(***************************************************************************)
AbsentVal == <<"absent">>      \* the key is missing from the dict
IntVal    == <<"int">>         \* a number: hashable, not writable to a text file
ListVal   == <<"list">>        \* a list: not hashable
NonStrings == {AbsentVal, IntVal, ListVal}

Unknown == <<"U", "N", "K", "N", "O", "W", "N">>
PlayerP == <<"p">>

LOCAL_BOT == "LOCAL_BOT"

\* nonces: uuid4 strings are numbered 1, 2, ...; 0 is a nonce made by
\* someone else, -1 a missing nonce (dl.get("nonce") is None)
NoNonce == -1
ForeignNonce == 0

(***************************************************************************)
(* dicts in insertion order: a sequence of <<key, count>> pairs.           *)
(***************************************************************************)
\* d.get(k, 0)
DictGet(d, k) ==
    IF \E i \in 1..Len(d) : d[i][1] = k
    THEN d[CHOOSE i \in 1..Len(d) : d[i][1] = k][2]
    ELSE 0

\* d[k] = v
DictSet(d, k, v) ==
    IF \E i \in 1..Len(d) : d[i][1] = k
    THEN [i \in 1..Len(d) |-> IF d[i][1] = k THEN <<k, v>> ELSE d[i]]
    ELSE Append(d, <<k, v>>)

\* a count that starts over: d[k] = 1
DictIncrReset(d, k) == DictSet(d, k, 1)

\* d[k] = d.get(k, 0) + 1
DictIncr(d, k) == DictSet(d, k, DictGet(d, k) + 1)

\* sorted(d.items(), key=lambda x: -x[1]): stable, descending by count
RECURSIVE InsertByCount(_, _)
InsertByCount(sorted, kv) ==
    IF sorted = <<>> THEN <<kv>>
    ELSE IF Head(sorted)[2] >= kv[2]
         THEN <<Head(sorted)>> \o InsertByCount(Tail(sorted), kv)
         ELSE <<kv>> \o sorted

RECURSIVE SortedByCount(_)
SortedByCount(d) ==
    IF d = <<>> THEN <<>>
    ELSE InsertByCount(SortedByCount(SubSeq(d, 1, Len(d) - 1)), d[Len(d)])

(***************************************************************************)
(* Messages.  kind "text" is not JSON, "json" is JSON but not a list,      *)
(* "list" is an envelope of items.  An item: d = it is a dict; cmd; tags   *)
(* = "deathlink" (a list holding "DeathLink"), "none" (a list without it,  *)
(* or the key missing) or "notiterable" (a number or null); data = its     *)
(* "data" is a dict; origin, nonce, source = the fields of that dict.      *)
(***************************************************************************)
Item(d, cmd, tags, data, origin, nonce, source) ==
    [d |-> d, cmd |-> cmd, tags |-> tags, data |-> data,
     origin |-> origin, nonce |-> nonce, source |-> source]

TextMsg == [kind |-> "text", items |-> <<>>]
JsonMsg == [kind |-> "json", items |-> <<>>]
Envelope(items) == [kind |-> "list", items |-> items]

\* a DeathLink bounce as the server relays it
Bounced(origin, nonce, source) ==
    Item(TRUE, "Bounced", "deathlink", TRUE, origin, nonce, source)

\* a payload that does not carry the tag of the bot as its origin
deathlink_payload_untagged(nonce, source_name) ==
    Envelope(<<Item(TRUE, "Bounce", "deathlink", TRUE, "player", nonce, source_name)>>)

\* the one-element envelope send_deathlink transmits
deathlink_payload(nonce, source_name) ==
    Envelope(<<Item(TRUE, "Bounce", "deathlink", TRUE, LOCAL_BOT, nonce, source_name)>>)

(***************************************************************************)
(* recent_outbound = deque(maxlen=...) of [nonce, source] (the timestamp   *)
(* is never read).  The capacity of 100 is scaled down so that eviction    *)
(* happens within the bounds of the model.                                 *)
(***************************************************************************)
RecentMaxLen == 2

\* a deque without maxlen
DequeAppendUnbounded(dq, rec) == Append(dq, rec)

\* deque.append with maxlen: the oldest record falls out of a full deque
DequeAppend(dq, rec) ==
    IF Len(dq) >= RecentMaxLen THEN Append(Tail(dq), rec) ELSE Append(dq, rec)

\* is_our_nonce
is_our_nonce(recent, nonce) == \E k \in 1..Len(recent) : recent[k].nonce = nonce

\* an origin check that never recognises the bot
OriginUnchecked(origin) == FALSE

\* is_our_origin
is_our_origin(origin) == origin = LOCAL_BOT

\* the condition of the continue
IsEcho(recent, item) == is_our_origin(item.origin) \/ is_our_nonce(recent, item.nonce)

\* the condition that selects a DeathLink bounce; "raise" where its
\* evaluation throws ("DeathLink" in <not iterable>)
Selects(item) ==
    IF ~item.d THEN "no"
    ELSE IF item.cmd \notin {"Bounced", "Bounce"} THEN "no"
    ELSE IF item.tags = "notiterable" THEN "raise"
    ELSE IF item.tags # "deathlink" THEN "no"
    ELSE IF ~item.data THEN "no"
    ELSE "yes"

\* dl.get("source", "UNKNOWN")
SourceOf(item) == IF item.source = AbsentVal THEN Unknown ELSE item.source

(***************************************************************************)
(* server_to_client's inspection of one message: the loop over the items   *)
(* of the envelope inside the try.  The fold carries player_death_stats    *)
(* (pds), the trigger file (trig), the clear-banner tasks created (timers) *)
(* and whether an exception has ended the loop (raised); trace records,    *)
(* per item, whether the loop reached it and what it did.                  *)
(***************************************************************************)
Traced(st, item, after, signalled) ==
    Append(st.trace, [item |-> item, reached |-> ~st.raised, before |-> st.pds,
                      after |-> after, signalled |-> signalled])

InspectItem(recent, st, item) ==
    LET skip  == [st EXCEPT !.trace = Traced(st, item, st.pds, FALSE)]
        abort == [skip EXCEPT !.raised = TRUE]
        source == SourceOf(item)
        counted == DictIncr(st.pds, source)
    IN  IF st.raised THEN skip
        ELSE IF Selects(item) = "no" THEN skip
        ELSE IF Selects(item) = "raise" THEN abort
        ELSE IF IsEcho(recent, item) THEN skip
        ELSE IF source = ListVal THEN abort       \* unhashable dict key
        ELSE IF source \in NonStrings
             \* counted; open(.., "w") truncates, f.write(<not a str>) throws
             THEN [pds |-> counted, trig |-> <<>>, timers |-> st.timers,
                   raised |-> TRUE, trace |-> Traced(st, item, counted, FALSE)]
             ELSE [pds |-> counted, trig |-> source, timers |-> st.timers + 1,
                   raised |-> FALSE, trace |-> Traced(st, item, counted, TRUE)]

RECURSIVE InspectItems(_, _, _)
InspectItems(recent, st, items) ==
    IF items = <<>> THEN st
    ELSE InspectItems(recent, InspectItem(recent, st, Head(items)), Tail(items))

\* json.loads fails on "text"; a non-list is not looked into
InspectMessage(recent, pds, trig, msg) ==
    LET st0 == [pds |-> pds, trig |-> trig, timers |-> 0, raised |-> FALSE,
                trace |-> <<>>]
    IN  IF msg.kind = "list" THEN InspectItems(recent, st0, msg.items) ELSE st0

(***************************************************************************)
(* Bounds of the relay specification.                                      *)
(***************************************************************************)
\* relay_messages invocations the model has room for
MaxSessions == 2
\* SpecRelay: messages the remote server and the local client send, together
MaxMsgs == 2
\* SpecSend: calls of send_deathlink that get past the connection check,
\* control-surface requests
\* SpecInbound: the items the remote server sends, over all its messages (a
\* message that is no envelope counts as one)
MaxItems == 2
MaxNonce == 2
MaxRequests == 2
\* SpecDrain: entries of the queue file the run starts with
MaxDrain == 3

Sessions == 1..MaxSessions
Handlers == {"h1"}
Tasks == {"disp"} \cup Handlers

VARIABLES
    queueFile,           \* DEATHLINK_QUEUE_FILE
    deathlink_stats,     \* dict contributor -> count
    player_death_stats,  \* dict player -> count
    recent_outbound,     \* deque of [nonce, source]
    client_connected,    \* global flag
    archipelago_ws,      \* global: 0 is None, else the session whose server_ws it is
    triggerFile,         \* TRIGGER_FILE, the overlay signal
    statsFile,           \* STATS_FILE, the snapshot send_deathlink writes
    clearTimers,         \* _clear_banner_soon tasks sleeping
    rpc,                 \* per relay_messages invocation: where it is
    cliConn,             \* per invocation: state of client_ws
    srvConn,             \* per invocation: state of server_ws
    c2s,                 \* per invocation: the client_to_server task
    s2c,                 \* per invocation: the server_to_client task
    message,             \* per invocation: server_to_client's loop variable
    cliSent,             \* per invocation: what the client has sent
    srvSent,             \* per invocation: what the server has sent
    cliRecv,             \* per invocation: what the client has received
    srvRecv,             \* per invocation: what the server has received
    c2sTaken,            \* per invocation: messages client_to_server has read
    s2cTaken,            \* per invocation: messages server_to_client has read
    inspCount,           \* per invocation: messages server_to_client has inspected
    nextNonce,           \* observer: nonces made so far, plus one
    tpc,                 \* per task: where it is
    call,                \* per task: its latest send_deathlink call
    req,                 \* per handler: user and total of its latest request
    requests,            \* observer: requests served so far
    returned,            \* observer: <<outcome, return value>> of finished calls
    qh,                  \* observer of the queue specification
    ph                   \* observer of the dispatcher's pace

globalVars == <<deathlink_stats, player_death_stats, recent_outbound,
                client_connected, archipelago_ws, triggerFile, statsFile,
                clearTimers>>
connVars == <<rpc, cliConn, srvConn, c2s, s2c, message>>
logVars == <<cliSent, srvSent, cliRecv, srvRecv, c2sTaken, s2cTaken, inspCount>>
taskVars == <<nextNonce, tpc, call, req, requests, returned>>
sysVars == <<globalVars, connVars, logVars, taskVars>>
vars == <<queueFile, qh, ph, sysVars>>

NoCall == [name |-> <<>>, nonce |-> NoNonce, ws |-> 0, outcome |-> "none"]
NoReq == [user |-> <<>>, total |-> 0, n |-> 0]

\* the state after the module has been loaded (lines 32-37, 294-295)
SysInit ==
    /\ deathlink_stats = <<>>
    /\ player_death_stats = <<>>
    /\ recent_outbound = <<>>
    /\ client_connected = FALSE
    /\ archipelago_ws = 0
    /\ triggerFile = <<>>
    /\ statsFile = <<>>
    /\ clearTimers = 0
    /\ rpc = [i \in Sessions |-> "none"]
    /\ cliConn = [i \in Sessions |-> "none"]
    /\ srvConn = [i \in Sessions |-> "none"]
    /\ c2s = [i \in Sessions |-> "idle"]
    /\ s2c = [i \in Sessions |-> "idle"]
    /\ message = [i \in Sessions |-> TextMsg]
    /\ cliSent = [i \in Sessions |-> <<>>]
    /\ srvSent = [i \in Sessions |-> <<>>]
    /\ cliRecv = [i \in Sessions |-> <<>>]
    /\ srvRecv = [i \in Sessions |-> <<>>]
    /\ c2sTaken = [i \in Sessions |-> 0]
    /\ s2cTaken = [i \in Sessions |-> 0]
    /\ inspCount = [i \in Sessions |-> 0]
    /\ nextNonce = 1
    /\ tpc = [t \in Tasks |-> IF t = "disp" THEN "loop" ELSE "idle"]
    /\ call = [t \in Tasks |-> NoCall]
    /\ req = [t \in Handlers |-> NoReq]
    /\ requests = 0
    /\ returned = {}

(***************************************************************************)
(* The pace of the dispatcher.  ph is its clock: while ph.on, now is the   *)
(* time the dispatcher has slept so far (awaiting a send takes no time),   *)
(* last the time of its latest transmission, gap the time between its two  *)
(* latest transmissions and pause the length of its latest pause; -1       *)
(* stands for none.  min and max are min_dispatch_seconds and              *)
(* max_dispatch_seconds of the config.                                     *)
(***************************************************************************)
\* asyncio.sleep(4) of send_deathlink
BannerSeconds == 4
\* asyncio.sleep(5) of the dispatcher
PollSeconds == 5
\* the dispatcher polls an empty queue up to this time
PaceHorizon == 10

\* configurations: inverted, degenerate, and two proper ranges
PaceConfigs == {<<480, 240>>, <<480, 480>>, <<240, 242>>, <<1, 2>>}

PhOff == [on |-> FALSE, min |-> 0, max |-> 0, now |-> 0, last |-> -1, gap |-> -1,
          pause |-> -1]

\* a range that takes the larger bound for the lower one when inverted
PauseRangeSwapped(min_s, max_s) ==
    IF max_s < min_s THEN max_s..min_s ELSE min_s..max_s

\* lines 268-272: what random.randint(min_s, max_s) can return after the
\* clamp of max_s
PauseRange(min_s, max_s) == min_s..(IF max_s < min_s THEN min_s ELSE max_s)

\* task t has transmitted (line 232)
PaceSent(t) ==
    ph' = IF ph.on /\ t = "disp"
          THEN [ph EXCEPT !.last = ph.now,
                          !.gap = IF ph.last >= 0 THEN ph.now - ph.last ELSE -1]
          ELSE ph

\* task t has slept secs in send_deathlink; the dispatcher then sleeps its
\* pause (line 272)
PaceSlept(t, secs) ==
    IF ph.on /\ t = "disp"
    THEN \E r \in PauseRange(ph.min, ph.max) :
            ph' = [ph EXCEPT !.now = @ + secs + r, !.pause = r]
    ELSE ph' = ph

\* the dispatcher has slept 5 seconds (lines 261, 274)
PacePolled ==
    IF ph.on
    THEN /\ ph.now + PollSeconds <= PaceHorizon
         /\ ph' = [ph EXCEPT !.now = @ + PollSeconds]
    ELSE ph' = ph

(***************************************************************************)
(* The queue helpers on their own: any caller, any name, any count.        *)
(***************************************************************************)
\* files the program itself can have left behind, and no file at all
InitQueueFiles ==
    {NoFile} \cup {FileOf(Join(q)) : q \in SeqsUpTo(Names, MaxInitQueue)}

QhIdle == [op |-> "none", pre |-> <<>>, name |-> <<>>, count |-> 0, ret |-> 0,
           got |-> <<>>, ops |-> 0]

QueueInit ==
    /\ queueFile \in InitQueueFiles
    /\ qh = QhIdle
    /\ ph = PhOff
    /\ SysInit

\* a caller runs enqueue_deathlinks(name, count)
QEnqueue ==
    \E name \in Names, count \in Counts :
        LET r == enqueue_deathlinks(queueFile, name, count)
        IN  /\ qh.ops < MaxQueueOps
            /\ queueFile' = r.file
            /\ qh' = [op |-> "enqueue", pre |-> ReadQueue(queueFile), name |-> name,
                      count |-> count, ret |-> r.ret, got |-> <<>>,
                      ops |-> qh.ops + 1]
            /\ UNCHANGED <<sysVars, ph>>

\* a caller runs dequeue_deathlink()
QDequeue ==
    LET r == dequeue_deathlink(queueFile)
    IN  /\ qh.ops < MaxQueueOps
        /\ queueFile' = r.file
        /\ qh' = [qh EXCEPT !.got = Append(@, [some |-> r.some, name |-> r.name,
                                               remaining |-> r.remaining]),
                            !.ops = @ + 1]
        /\ UNCHANGED <<sysVars, ph>>

QueueNext == QEnqueue \/ QDequeue

SpecQueue == QueueInit /\ [][QueueNext]_vars

(***************************************************************************)
(* The relay: relay_messages, one invocation per accepted client           *)
(* connection (websockets.serve starts a handler task per connection).     *)
(* rpc: "none" not started, "connecting" awaiting websockets.connect,      *)
(* "running" awaiting gather, "closing" awaiting the close of server_ws on *)
(* leaving the async with, "done" after the finally.                       *)
(* A connection is "open", "closedOK" (closed with code 1000/1001: an      *)
(* async for over it ends) or "closedErr" (an async for over it raises);   *)
(* a send on a closed connection raises.                                   *)
(***************************************************************************)
Closed(c) == c \in {"closedOK", "closedErr"}
CloseIfOpen(c) == IF c = "open" THEN "closedOK" ELSE c

RECURSIVE SumLen(_, _)
SumLen(logs, n) == IF n = 0 THEN 0 ELSE Len(logs[n]) + SumLen(logs, n - 1)

FromClient(m) == [from |-> "client", msg |-> m]
FromBot(m) == [from |-> "bot", msg |-> m]

\* a relay that keeps what it cannot parse to itself
ForwardedParsedOnly(log, m) == IF m.kind = "text" THEN log ELSE Append(log, m)

\* client_ws.send(message) on an open connection
Forwarded(log, m) == Append(log, m)

\* invocations of relay_messages so far
Started == Cardinality({i \in Sessions : rpc[i] # "none"})

\* the local client connects to ws://localhost:42069; sessions bounds the
\* connections of a behaviour
ClientConnect(i, sessions) ==
    /\ rpc[i] = "none"
    /\ Started < sessions
    /\ \A j \in Sessions : j < i => rpc[j] # "none"
    /\ rpc' = [rpc EXCEPT ![i] = "connecting"]
    /\ cliConn' = [cliConn EXCEPT ![i] = "open"]
    /\ UNCHANGED <<queueFile, qh, ph, globalVars, srvConn, c2s, s2c, message, logVars,
                   taskVars>>

\* the local client connects again after its earlier connections have ended
ClientReconnect(i, sessions) ==
    /\ \A j \in Sessions : j < i => rpc[j] = "done"
    /\ ClientConnect(i, sessions)

\* a relay that marks the session active for its first connection only
ConnectOKFirstOnly(i) ==
    /\ rpc[i] = "connecting"
    /\ rpc' = [rpc EXCEPT ![i] = "running"]
    /\ srvConn' = [srvConn EXCEPT ![i] = "open"]
    /\ archipelago_ws' = i
    /\ client_connected' = (\A j \in Sessions : rpc[j] # "done")
    /\ c2s' = [c2s EXCEPT ![i] = "run"]
    /\ s2c' = [s2c EXCEPT ![i] = "run"]
    /\ UNCHANGED <<queueFile, qh, ph, deathlink_stats, player_death_stats,
                   recent_outbound, triggerFile, statsFile, clearTimers, cliConn,
                   message, logVars, taskVars>>

\* websockets.connect succeeds: lines 144-146, then gather starts both pumps
ConnectOK(i) ==
    /\ rpc[i] = "connecting"
    /\ rpc' = [rpc EXCEPT ![i] = "running"]
    /\ srvConn' = [srvConn EXCEPT ![i] = "open"]
    /\ archipelago_ws' = i
    /\ client_connected' = TRUE
    /\ c2s' = [c2s EXCEPT ![i] = "run"]
    /\ s2c' = [s2c EXCEPT ![i] = "run"]
    /\ UNCHANGED <<queueFile, qh, ph, deathlink_stats, player_death_stats,
                   recent_outbound, triggerFile, statsFile, clearTimers, cliConn,
                   message, logVars, taskVars>>

\* the finally of relay_messages; the websockets server closes client_ws
\* when the handler returns
Finally(i) ==
    /\ rpc' = [rpc EXCEPT ![i] = "done"]
    /\ client_connected' = FALSE
    /\ archipelago_ws' = 0
    /\ cliConn' = [cliConn EXCEPT ![i] = CloseIfOpen(@)]

\* websockets.connect raises: except, finally
ConnectFail(i) ==
    /\ rpc[i] = "connecting"
    /\ Finally(i)
    /\ UNCHANGED <<queueFile, qh, ph, deathlink_stats, player_death_stats,
                   recent_outbound, triggerFile, statsFile, clearTimers, srvConn,
                   c2s, s2c, message, logVars, taskVars>>

\* gather returns (both pumps returned) or raises (a pump raised; the other
\* keeps running); leaving the async with closes server_ws
GatherDone(i) ==
    /\ rpc[i] = "running"
    /\ \/ c2s[i] = "raised"
       \/ s2c[i] = "raised"
       \/ c2s[i] = "returned" /\ s2c[i] = "returned"
    /\ rpc' = [rpc EXCEPT ![i] = "closing"]
    /\ srvConn' = [srvConn EXCEPT ![i] = CloseIfOpen(@)]
    /\ UNCHANGED <<queueFile, qh, ph, globalVars, cliConn, c2s, s2c, message, logVars,
                   taskVars>>

\* server_ws is closed: except (if gather raised), finally
Teardown(i) ==
    /\ rpc[i] = "closing"
    /\ Finally(i)
    /\ UNCHANGED <<queueFile, qh, ph, deathlink_stats, player_death_stats,
                   recent_outbound, triggerFile, statsFile, clearTimers, srvConn,
                   c2s, s2c, message, logVars, taskVars>>

\* a client_to_server that inspects what it forwards, as server_to_client
\* does
C2S_Inspected(m) ==
    LET r == InspectMessage(recent_outbound, player_death_stats, triggerFile, m)
    IN  /\ player_death_stats' = r.pds
        /\ triggerFile' = r.trig
        /\ clearTimers' = clearTimers + r.timers

\* the body of client_to_server's loop is the send alone (line 151): the
\* message is not parsed
C2S_NoInspect(m) == UNCHANGED <<player_death_stats, triggerFile, clearTimers>>

\* client_to_server: one turn of the async for, or its end
C2S_Step(i) ==
    /\ c2s[i] = "run"
    /\ IF c2sTaken[i] < Len(cliSent[i])
       THEN /\ c2sTaken' = [c2sTaken EXCEPT ![i] = @ + 1]
            /\ C2S_NoInspect(cliSent[i][c2sTaken[i] + 1])
            /\ IF srvConn[i] = "open"
               THEN /\ srvRecv' = [srvRecv EXCEPT
                          ![i] = Append(@, FromClient(cliSent[i][c2sTaken[i] + 1]))]
                    /\ c2s' = c2s
               ELSE /\ c2s' = [c2s EXCEPT ![i] = "raised"]
                    /\ srvRecv' = srvRecv
       ELSE /\ Closed(cliConn[i])
            /\ c2s' = [c2s EXCEPT
                         ![i] = IF cliConn[i] = "closedOK" THEN "returned" ELSE "raised"]
            /\ UNCHANGED <<c2sTaken, srvRecv, player_death_stats, triggerFile,
                           clearTimers>>
    /\ UNCHANGED <<queueFile, qh, ph, deathlink_stats, recent_outbound,
                   client_connected, archipelago_ws, statsFile, rpc, cliConn,
                   srvConn, s2c, message, cliSent, srvSent, cliRecv, s2cTaken,
                   inspCount, taskVars>>

\* server_to_client: the async for yields a message and it is forwarded
\* (line 164), or the async for ends
S2C_Forward(i) ==
    /\ s2c[i] = "run"
    /\ IF s2cTaken[i] < Len(srvSent[i])
       THEN /\ s2cTaken' = [s2cTaken EXCEPT ![i] = @ + 1]
            /\ message' = [message EXCEPT ![i] = srvSent[i][s2cTaken[i] + 1]]
            /\ IF cliConn[i] = "open"
               THEN /\ cliRecv' = [cliRecv EXCEPT ![i] = Forwarded(@, message'[i])]
                    /\ s2c' = [s2c EXCEPT ![i] = "inspect"]
               ELSE /\ s2c' = [s2c EXCEPT ![i] = "raised"]
                    /\ cliRecv' = cliRecv
       ELSE /\ Closed(srvConn[i])
            /\ s2c' = [s2c EXCEPT
                         ![i] = IF srvConn[i] = "closedOK" THEN "returned" ELSE "raised"]
            /\ UNCHANGED <<s2cTaken, message, cliRecv>>
    /\ UNCHANGED <<queueFile, qh, ph, globalVars, rpc, cliConn, srvConn, c2s, cliSent,
                   srvSent, srvRecv, c2sTaken, inspCount, taskVars>>

\* a pump that lets the exception of an inspection escape
AfterInspectRaising(r) == IF r.raised THEN "raised" ELSE "run"

\* the except at line 194 swallows what the inspection raised: the async
\* for goes on
AfterInspect(r) == "run"

\* server_to_client: lines 167-196 on the message just forwarded
S2C_Inspect(i) ==
    /\ s2c[i] = "inspect"
    /\ LET r == InspectMessage(recent_outbound, player_death_stats, triggerFile,
                               message[i])
       IN  /\ player_death_stats' = r.pds
           /\ triggerFile' = r.trig
           /\ clearTimers' = clearTimers + r.timers
           /\ s2c' = [s2c EXCEPT ![i] = AfterInspect(r)]
    /\ inspCount' = [inspCount EXCEPT ![i] = @ + 1]
    /\ UNCHANGED <<queueFile, qh, ph, deathlink_stats, recent_outbound,
                   client_connected, archipelago_ws, statsFile, rpc, cliConn,
                   srvConn, c2s, message, cliSent, srvSent, cliRecv, srvRecv,
                   c2sTaken, s2cTaken, taskVars>>

\* a clear-banner task that ends without having written the file
BannerTimerLost ==
    /\ clearTimers > 0
    /\ clearTimers' = clearTimers - 1
    /\ triggerFile' = triggerFile
    /\ UNCHANGED <<queueFile, qh, ph, deathlink_stats, player_death_stats,
                   recent_outbound, client_connected, archipelago_ws, statsFile,
                   connVars, logVars, taskVars>>

\* _clear_banner_soon after its sleep
BannerTimer ==
    /\ clearTimers > 0
    /\ clearTimers' = clearTimers - 1
    /\ triggerFile' = <<>>
    /\ UNCHANGED <<queueFile, qh, ph, deathlink_stats, player_death_stats,
                   recent_outbound, client_connected, archipelago_ws, statsFile,
                   connVars, logVars, taskVars>>

(***************************************************************************)
(* The two peers.                                                          *)
(***************************************************************************)
\* what the local game client sends: anything, among it its own DeathLink
ClientMsgs ==
    {TextMsg,
     Envelope(<<Item(TRUE, "Bounce", "deathlink", TRUE, "player", NoNonce, PlayerP)>>)}

\* the bounces the server has received from send_deathlink on connection i
BotItems(i) ==
    {srvRecv[i][k].msg.items[1] : k \in {j \in 1..Len(srvRecv[i]) : srvRecv[i][j].from = "bot"}}

\* what the remote server sends: non-JSON, JSON that is no envelope, an
\* envelope with a malformed bounce, another player's death, and the echo
\* of a bounce it received
ServerMsgs(i) ==
    {TextMsg, JsonMsg,
     Envelope(<<Item(TRUE, "Bounced", "notiterable", TRUE, "player", NoNonce, PlayerP)>>),
     Envelope(<<Bounced("player", ForeignNonce, PlayerP)>>)}
    \cup {Envelope(<<Bounced(it.origin, it.nonce, it.source)>>) : it \in BotItems(i)}

\* items of every shape the inspection distinguishes: not a dict, another
\* command, tags that cannot be searched, no DeathLink tag, data that is no
\* dict; deaths of other players with a source that is a name, missing, a
\* number or a list; a death sent with "Bounce"; echoes of our bounces with
\* the origin kept or removed; and bounces of another LOCAL_BOT
InboundItems(i) ==
    {Item(FALSE, "Bounced", "deathlink", TRUE, "player", ForeignNonce, PlayerP),
     Item(TRUE, "PrintJSON", "deathlink", TRUE, "player", ForeignNonce, PlayerP),
     Item(TRUE, "Bounced", "notiterable", TRUE, "player", ForeignNonce, PlayerP),
     Item(TRUE, "Bounced", "none", TRUE, "player", ForeignNonce, PlayerP),
     Item(TRUE, "Bounced", "deathlink", FALSE, "player", ForeignNonce, PlayerP),
     Item(TRUE, "Bounce", "deathlink", TRUE, "player", NoNonce, PlayerP)}
    \cup {Bounced("player", ForeignNonce, src) :
            src \in {PlayerP, AbsentVal, IntVal, ListVal}}
    \cup {Bounced(o, it.nonce, it.source) :
            o \in {LOCAL_BOT, "player"}, it \in BotItems(i)}
    \cup {Bounced(LOCAL_BOT, n, PlayerP) : n \in {NoNonce, ForeignNonce}}

\* the bounces the server has received from the bot, sent back with the
\* origin of the player who relays them
EchoMsgs(i) ==
    {Envelope(<<Bounced("player", it.nonce, it.source)>>) : it \in BotItems(i)}

\* what the server makes of a bounce it received: the data as they came
Relayed(it) == Bounced(it.origin, it.nonce, it.source)

\* the death of another player
ForeignDeath == Bounced("player", ForeignNonce, PlayerP)

\* the bounces the server has received from the bot, sent back as they are,
\* alone or ahead of the death of another player, and such a death alone
RelayedMsgs(i) ==
    {Envelope(<<ForeignDeath>>)}
    \cup {Envelope(<<Relayed(it)>>) : it \in BotItems(i)}
    \cup {Envelope(<<Relayed(it), ForeignDeath>>) : it \in BotItems(i)}

\* the size of a message in items
Size(m) == Max(1, Len(m.items))

RECURSIVE ItemsSent(_)
ItemsSent(log) == IF log = <<>> THEN 0 ELSE Size(Head(log)) + ItemsSent(Tail(log))

\* every envelope of such items that fits into room, and messages that are
\* no envelope
InboundMsgs(i, room) ==
    IF room <= 0 THEN {}
    ELSE {TextMsg, JsonMsg}
         \cup {Envelope(items) : items \in SeqsUpTo(InboundItems(i), room) \ {<<>>}}

\* messages sent by the two peers so far
Traffic == SumLen(srvSent, MaxSessions) + SumLen(cliSent, MaxSessions)

\* msgs bounds the traffic of a behaviour
ClientSend(i, msgs) ==
    /\ cliConn[i] = "open"
    /\ Traffic < msgs
    /\ \E m \in ClientMsgs : cliSent' = [cliSent EXCEPT ![i] = Append(@, m)]
    /\ UNCHANGED <<queueFile, qh, ph, globalVars, connVars, srvSent, cliRecv, srvRecv,
                   c2sTaken, s2cTaken, inspCount, taskVars>>

ClientClose(i) ==
    /\ cliConn[i] = "open"
    /\ \E how \in {"closedOK", "closedErr"} : cliConn' = [cliConn EXCEPT ![i] = how]
    /\ UNCHANGED <<queueFile, qh, ph, globalVars, rpc, srvConn, c2s, s2c, message,
                   logVars, taskVars>>

ServerSendFrom(i, choice, msgs) ==
    /\ srvConn[i] = "open"
    /\ Traffic < msgs
    /\ \E m \in choice : srvSent' = [srvSent EXCEPT ![i] = Append(@, m)]
    /\ UNCHANGED <<queueFile, qh, ph, globalVars, connVars, cliSent, cliRecv, srvRecv,
                   c2sTaken, s2cTaken, inspCount, taskVars>>

ServerSend(i, msgs) == ServerSendFrom(i, ServerMsgs(i), msgs)

ServerClose(i) ==
    /\ srvConn[i] = "open"
    /\ \E how \in {"closedOK", "closedErr"} : srvConn' = [srvConn EXCEPT ![i] = how]
    /\ UNCHANGED <<queueFile, qh, ph, globalVars, rpc, cliConn, c2s, s2c, message,
                   logVars, taskVars>>

(***************************************************************************)
(* send_deathlink, as run by the task t that called it.  call[t] is the    *)
(* latest call of t: its source_name, the nonce it made, the connection    *)
(* archipelago_ws referred to when the send was started, and its outcome   *)
(* ("refused" at the connection check, "pending" while the send is         *)
(* awaited, "transmitted", "failed" when the send raised).                 *)
(***************************************************************************)
Active == archipelago_ws # 0 /\ client_connected

\* what send_deathlink returns: a bare return at line 212, the end of the
\* function body otherwise
ReturnValue(outcome) == "None"

\* deque record appended at line 233
OutboundRecord(c) == [nonce |-> c.nonce, source |-> c.name]

\* a refusal that comes after the count
SendRefusedCounted(t, name) ==
    /\ call' = [call EXCEPT ![t] = [name |-> name,
                                    nonce |-> NoNonce, ws |-> 0,
                                    outcome |-> "refused"]]
    /\ returned' = returned \cup {<<"refused", ReturnValue("refused")>>}
    /\ deathlink_stats' = DictIncr(deathlink_stats, name)
    /\ nextNonce' = nextNonce

\* lines 210-212
SendRefused(t, name) ==
    /\ call' = [call EXCEPT ![t] = [name |-> name,
                                    nonce |-> NoNonce, ws |-> 0,
                                    outcome |-> "refused"]]
    /\ returned' = returned \cup {<<"refused", ReturnValue("refused")>>}
    /\ UNCHANGED <<deathlink_stats, nextNonce>>

\* lines 215-232, up to the await of the send
SendBegin(t, name) ==
    /\ deathlink_stats' = DictIncr(deathlink_stats, name)
    /\ nextNonce' = nextNonce + 1
    /\ call' = [call EXCEPT ![t] = [name |-> name,
                                    nonce |-> nextNonce, ws |-> archipelago_ws,
                                    outcome |-> "pending"]]
    /\ returned' = returned

\* the caller's code after send_deathlink returned: the dispatcher sleeps
\* and loops, a handler queues the remainder (lines 465-467) and responds
AfterSend(t) ==
    /\ tpc' = [tpc EXCEPT ![t] = IF t = "disp" THEN "loop" ELSE "idle"]
    /\ queueFile' = IF t \in Handlers /\ req[t].total > 1
                    THEN enqueue_deathlinks(queueFile, req[t].user,
                                            req[t].total - 1).file
                    ELSE queueFile

\* the send at line 232 completes: lines 233-246, up to the sleep
TransmitOK(t) ==
    /\ tpc[t] = "sending"
    /\ srvConn[call[t].ws] = "open"
    /\ srvRecv' = [srvRecv EXCEPT ![call[t].ws] =
                     Append(@, FromBot(deathlink_payload(call[t].nonce, call[t].name)))]
    /\ recent_outbound' = DequeAppend(recent_outbound, OutboundRecord(call[t]))
    /\ statsFile' = SortedByCount(deathlink_stats)
    /\ triggerFile' = call[t].name
    /\ call' = [call EXCEPT ![t].outcome = "transmitted"]
    /\ tpc' = [tpc EXCEPT ![t] = "banner"]
    /\ PaceSent(t)
    /\ UNCHANGED <<queueFile, qh, deathlink_stats, player_death_stats,
                   client_connected, archipelago_ws, clearTimers, connVars,
                   cliSent, srvSent, cliRecv, c2sTaken, s2cTaken, inspCount,
                   nextNonce, req, requests, returned>>

\* the send at line 232 in two steps, for the interleavings of the await:
\* the payload has left for the server while the task still waits at the
\* await (tpc "wired")
TransmitWire(t) ==
    /\ tpc[t] = "sending"
    /\ srvConn[call[t].ws] = "open"
    /\ srvRecv' = [srvRecv EXCEPT ![call[t].ws] =
                     Append(@, FromBot(deathlink_payload(call[t].nonce, call[t].name)))]
    /\ tpc' = [tpc EXCEPT ![t] = "wired"]
    /\ PaceSent(t)
    /\ UNCHANGED <<queueFile, qh, globalVars, connVars, cliSent, srvSent, cliRecv,
                   c2sTaken, s2cTaken, inspCount, nextNonce, call, req, requests,
                   returned>>

\* the task goes on after the await: lines 233-246, up to the sleep
TransmitResume(t) ==
    /\ tpc[t] = "wired"
    /\ recent_outbound' = DequeAppend(recent_outbound, OutboundRecord(call[t]))
    /\ statsFile' = SortedByCount(deathlink_stats)
    /\ triggerFile' = call[t].name
    /\ call' = [call EXCEPT ![t].outcome = "transmitted"]
    /\ tpc' = [tpc EXCEPT ![t] = "banner"]
    /\ UNCHANGED <<queueFile, qh, ph, deathlink_stats, player_death_stats,
                   client_connected, archipelago_ws, clearTimers, connVars,
                   logVars, nextNonce, req, requests, returned>>

\* a send path that registers the nonce before it knows the send went out
TransmitFailRegistered(t) ==
    /\ tpc[t] = "sending"
    /\ srvConn[call[t].ws] # "open"
    /\ call' = [call EXCEPT ![t].outcome = "failed"]
    /\ returned' = returned \cup {<<"failed", ReturnValue("failed")>>}
    /\ recent_outbound' = DequeAppend(recent_outbound, OutboundRecord(call[t]))
    /\ AfterSend(t)
    /\ PaceSlept(t, 0)
    /\ UNCHANGED <<qh, deathlink_stats, player_death_stats, client_connected,
                   archipelago_ws, triggerFile, statsFile, clearTimers, connVars,
                   logVars, nextNonce, req, requests>>

\* the send at line 232 raises (the connection is closed): lines 250-251
TransmitFail(t) ==
    /\ tpc[t] = "sending"
    /\ srvConn[call[t].ws] # "open"
    /\ call' = [call EXCEPT ![t].outcome = "failed"]
    /\ returned' = returned \cup {<<"failed", ReturnValue("failed")>>}
    /\ AfterSend(t)
    /\ PaceSlept(t, 0)
    /\ UNCHANGED <<qh, globalVars, connVars, logVars, nextNonce, req, requests>>

\* the sleep of line 246 is over: lines 247-248, then the caller goes on
BannerClear(t) ==
    /\ tpc[t] = "banner"
    /\ triggerFile' = <<>>
    /\ returned' = returned \cup {<<"transmitted", ReturnValue("transmitted")>>}
    /\ AfterSend(t)
    /\ PaceSlept(t, BannerSeconds)
    /\ UNCHANGED <<qh, deathlink_stats, player_death_stats, recent_outbound,
                   client_connected, archipelago_ws, statsFile, clearTimers,
                   connVars, logVars, nextNonce, call, req, requests>>

(***************************************************************************)
(* The dispatcher and the control surface.                                 *)
(***************************************************************************)
\* config "deaths_per_twitch_sub"
DeathsPerTwitchSub == 3

\* names and quantities of the requests
Users == {NameA, NameB}
Qtys == {0, 1}

\* total_deaths of /twitch (line 459) and qty of /custom (line 488)
TotalDeaths(ep, qty) == IF ep = "twitch" THEN qty * DeathsPerTwitchSub ELSE qty

\* "if name:" at line 258
Truthy(r) == r.some /\ r.name # <<>>

\* a skip that counts the entry for its contributor all the same
DispatchSkipCounted(r) ==
    /\ deathlink_stats' = DictIncr(deathlink_stats, r.name)
    /\ PacePolled
    /\ UNCHANGED <<nextNonce, call, returned, tpc>>

\* nothing dequeued (line 274), or an entry dequeued with no client
\* connected (lines 259-262): a sleep, then the next turn
DispatchSkip(r) ==
    /\ PacePolled
    /\ UNCHANGED <<deathlink_stats, nextNonce, call, returned, tpc>>

\* one turn of staged_deathlink_dispatcher up to its first await that is
\* not a plain sleep; nonces bounds the nonces made in a behaviour
Dispatch(nonces) ==
    /\ tpc["disp"] = "loop"
    /\ LET r == dequeue_deathlink(queueFile)
       IN  /\ queueFile' = r.file
           /\ IF Truthy(r) /\ client_connected
              THEN IF Active
                   THEN /\ nextNonce <= nonces
                        /\ SendBegin("disp", r.name)
                        /\ tpc' = [tpc EXCEPT !["disp"] = "sending"]
                        /\ ph' = ph
                   ELSE /\ SendRefused("disp", r.name)
                        /\ tpc' = tpc
                        /\ PaceSlept("disp", 0)
              ELSE DispatchSkip(r)
    /\ UNCHANGED <<qh, player_death_stats, recent_outbound, client_connected,
                   archipelago_ws, triggerFile, statsFile, clearTimers, connVars,
                   logVars, req, requests>>

\* a GET /twitch or /custom request, up to the await of the send; nonces and
\* reqs bound the nonces made and the requests served in a behaviour
RequestAs(t, users, eps, qtys, nonces, reqs) ==
    /\ tpc[t] = "idle"
    /\ requests < reqs
    /\ requests' = requests + 1
    /\ \E ep \in eps, user \in users, qty \in qtys :
         LET total == TotalDeaths(ep, qty)
         IN  /\ req' = [req EXCEPT ![t] = [user |-> user, total |-> total,
                                               n |-> requests + 1]]
             /\ IF total <= 0
                THEN UNCHANGED <<queueFile, deathlink_stats, nextNonce, call,
                                 returned, tpc>>
                ELSE IF Active
                THEN /\ nextNonce <= nonces
                     /\ SendBegin(t, user)
                     /\ tpc' = [tpc EXCEPT ![t] = "sending"]
                     /\ queueFile' = queueFile
                ELSE /\ SendRefused(t, user)
                     /\ tpc' = tpc
                     /\ queueFile' =
                          IF total > 1
                          THEN enqueue_deathlinks(queueFile, user, total - 1).file
                          ELSE queueFile
    /\ UNCHANGED <<qh, ph, player_death_stats, recent_outbound, client_connected,
                   archipelago_ws, triggerFile, statsFile, clearTimers, connVars,
                   logVars>>

RequestFrom(t, eps, qtys, nonces, reqs) == RequestAs(t, Users, eps, qtys, nonces, reqs)

Request(t, nonces, reqs) == RequestFrom(t, {"twitch", "custom"}, Qtys, nonces, reqs)

(***************************************************************************)
(* Specifications.  Each one runs the program in an environment that is    *)
(* limited in what it sends and how often; the steps are the program's.    *)
(***************************************************************************)
\* the state after start-up with no queue file left over
Init ==
    /\ queueFile = NoFile
    /\ qh = QhIdle
    /\ ph = PhOff
    /\ SysInit

\* SpecRelay: one client connection, traffic in both directions, and one
\* immediate send (/custom with qty 1, which queues nothing)
RelayNext ==
    \/ \E i \in Sessions : ClientConnect(i, 1)
    \/ \E i \in Sessions : ConnectOK(i)
    \/ \E i \in Sessions : ConnectFail(i)
    \/ \E i \in Sessions : GatherDone(i)
    \/ \E i \in Sessions : Teardown(i)
    \/ \E i \in Sessions : C2S_Step(i)
    \/ \E i \in Sessions : S2C_Forward(i)
    \/ \E i \in Sessions : S2C_Inspect(i)
    \/ \E i \in Sessions : ClientSend(i, MaxMsgs)
    \/ \E i \in Sessions : ClientClose(i)
    \/ \E i \in Sessions : ServerSend(i, MaxMsgs)
    \/ \E i \in Sessions : ServerClose(i)
    \/ BannerTimer
    \/ \E t \in Handlers : RequestFrom(t, {"custom"}, {1}, 1, 1)
    \/ \E t \in Tasks : TransmitOK(t)
    \/ \E t \in Tasks : TransmitFail(t)
    \/ \E t \in Tasks : BannerClear(t)

SpecRelay == Init /\ [][RelayNext]_vars

\* SpecSend: one client connection that comes and goes, no traffic, the
\* control surface and the dispatcher, with or without a queue file left
\* over from an earlier run
SendInit ==
    /\ queueFile \in {NoFile, FileOf(Join(<<NameB>>))}
    /\ qh = QhIdle
    /\ ph = PhOff
    /\ SysInit

SendNext ==
    \/ \E i \in Sessions : ClientConnect(i, 1)
    \/ \E i \in Sessions : ConnectOK(i)
    \/ \E i \in Sessions : ConnectFail(i)
    \/ \E i \in Sessions : GatherDone(i)
    \/ \E i \in Sessions : Teardown(i)
    \/ \E i \in Sessions : C2S_Step(i)
    \/ \E i \in Sessions : S2C_Forward(i)
    \/ \E i \in Sessions : ClientClose(i)
    \/ \E i \in Sessions : ServerClose(i)
    \/ Dispatch(MaxNonce)
    \/ \E t \in Handlers : Request(t, MaxNonce, MaxRequests)
    \/ \E t \in Tasks : TransmitOK(t)
    \/ \E t \in Tasks : TransmitFail(t)
    \/ \E t \in Tasks : BannerClear(t)

SpecSend == SendInit /\ [][SendNext]_vars

\* SpecInbound: one client connection, two immediate sends, and a server
\* that sends envelopes of every shape
InboundNext ==
    \/ \E i \in Sessions : ClientConnect(i, 1)
    \/ \E i \in Sessions : ConnectOK(i)
    \/ \E i \in Sessions : S2C_Forward(i)
    \/ \E i \in Sessions : S2C_Inspect(i)
    \/ \E i \in Sessions :
          ServerSendFrom(i, InboundMsgs(i, MaxItems - ItemsSent(srvSent[i])), MaxItems)
    \/ BannerTimer
    \/ \E t \in Handlers : RequestFrom(t, {"custom"}, {1}, 2, 2)
    \/ \E t \in Tasks : TransmitOK(t)
    \/ \E t \in Tasks : BannerClear(t)

SpecInbound == Init /\ [][InboundNext]_vars

\* SpecSessions: client connections that overlap, no traffic, and one
\* immediate send
SessionsNext ==
    \/ \E i \in Sessions : ClientConnect(i, MaxSessions)
    \/ \E i \in Sessions : ConnectOK(i)
    \/ \E i \in Sessions : ConnectFail(i)
    \/ \E i \in Sessions : GatherDone(i)
    \/ \E i \in Sessions : Teardown(i)
    \/ \E i \in Sessions : C2S_Step(i)
    \/ \E i \in Sessions : S2C_Forward(i)
    \/ \E i \in Sessions : ClientClose(i)
    \/ \E i \in Sessions : ServerClose(i)
    \/ \E t \in Handlers : RequestFrom(t, {"custom"}, {1}, 1, 1)
    \/ \E t \in Tasks : TransmitOK(t)
    \/ \E t \in Tasks : TransmitFail(t)
    \/ \E t \in Tasks : BannerClear(t)

SpecSessions == Init /\ [][SessionsNext]_vars

\* SpecDrain: a queue file left over from an earlier run, one client
\* connection that stays, and the dispatcher alone
DrainInit ==
    /\ queueFile \in {NoFile} \cup {FileOf(Join(q)) : q \in SeqsUpTo(Users, MaxDrain)}
    /\ qh = QhIdle
    /\ ph = PhOff
    /\ SysInit

DrainNext ==
    \/ \E i \in Sessions : ClientConnect(i, 1)
    \/ \E i \in Sessions : ConnectOK(i)
    \/ Dispatch(MaxDrain)
    \/ \E t \in Tasks : TransmitOK(t)
    \/ \E t \in Tasks : BannerClear(t)

SpecDrain == DrainInit /\ [][DrainNext]_vars

\* SpecRegistry: one client connection, one immediate send more than the
\* registry holds, and a server that sends back what it received
RegistryNext ==
    \/ \E i \in Sessions : ClientConnect(i, 1)
    \/ \E i \in Sessions : ConnectOK(i)
    \/ \E i \in Sessions : S2C_Forward(i)
    \/ \E i \in Sessions : S2C_Inspect(i)
    \/ \E i \in Sessions : ServerSendFrom(i, EchoMsgs(i), MaxMsgs)
    \/ BannerTimer
    \/ \E t \in Handlers :
          RequestFrom(t, {"custom"}, {1}, RecentMaxLen + 1, RecentMaxLen + 1)
    \/ \E t \in Tasks : TransmitOK(t)
    \/ \E t \in Tasks : BannerClear(t)

SpecRegistry == Init /\ [][RegistryNext]_vars

\* SpecTrigger: one client connection, the dispatcher, and requests of one
\* or two subscriptions or custom deaths, among them ?user= with no name
TriggerNext ==
    \/ \E i \in Sessions : ClientConnect(i, 1)
    \/ \E i \in Sessions : ConnectOK(i)
    \/ Dispatch(MaxNonce)
    \/ \E t \in Handlers :
          RequestAs(t, Users \cup {Blank}, {"twitch", "custom"}, {1, 2},
                    MaxNonce, MaxRequests)
    \/ \E t \in Tasks : TransmitOK(t)
    \/ \E t \in Tasks : BannerClear(t)

SpecTrigger == Init /\ [][TriggerNext]_vars

\* SpecOverlay: one client connection that can end, a server that sends
\* deaths of another player, and one immediate send; a sleep of 4 seconds
\* ends, so the task that sleeps goes on
OverlayNext ==
    \/ \E i \in Sessions : ClientConnect(i, 1)
    \/ \E i \in Sessions : ConnectOK(i)
    \/ \E i \in Sessions : GatherDone(i)
    \/ \E i \in Sessions : Teardown(i)
    \/ \E i \in Sessions : S2C_Forward(i)
    \/ \E i \in Sessions : S2C_Inspect(i)
    \/ \E i \in Sessions :
          ServerSendFrom(i, {Envelope(<<Bounced("player", ForeignNonce, PlayerP)>>)},
                         MaxMsgs)
    \/ \E i \in Sessions : ServerClose(i)
    \/ BannerTimer
    \/ \E t \in Handlers : RequestFrom(t, {"custom"}, {1}, 1, 1)
    \/ \E t \in Tasks : TransmitOK(t)
    \/ \E t \in Tasks : TransmitFail(t)
    \/ \E t \in Tasks : BannerClear(t)

SpecOverlay ==
    /\ Init
    /\ [][OverlayNext]_vars
    /\ WF_vars(BannerTimer)
    /\ \A t \in Tasks : WF_vars(BannerClear(t))

\* SpecPace: SpecDrain with the clock of the dispatcher running, for each
\* configuration of the pause
PaceInit ==
    /\ queueFile \in {NoFile} \cup {FileOf(Join(q)) : q \in SeqsUpTo(Users, MaxDrain)}
    /\ qh = QhIdle
    /\ \E c \in PaceConfigs : ph = [PhOff EXCEPT !.on = TRUE, !.min = c[1], !.max = c[2]]
    /\ SysInit

PaceNext ==
    \/ \E i \in Sessions : ClientConnect(i, 1)
    \/ \E i \in Sessions : ConnectOK(i)
    \/ Dispatch(MaxDrain)
    \/ \E t \in Tasks : TransmitOK(t)
    \/ \E t \in Tasks : BannerClear(t)

SpecPace == PaceInit /\ [][PaceNext]_vars

\* SpecReconnect: client connections one after the other, each made when
\* the one before has ended, no traffic, and two immediate sends
ReconnectNext ==
    \/ \E i \in Sessions : ClientReconnect(i, MaxSessions)
    \/ \E i \in Sessions : ConnectOK(i)
    \/ \E i \in Sessions : ConnectFail(i)
    \/ \E i \in Sessions : GatherDone(i)
    \/ \E i \in Sessions : Teardown(i)
    \/ \E i \in Sessions : C2S_Step(i)
    \/ \E i \in Sessions : S2C_Forward(i)
    \/ \E i \in Sessions : ClientClose(i)
    \/ \E i \in Sessions : ServerClose(i)
    \/ \E t \in Handlers : RequestFrom(t, {"custom"}, {1}, 2, 2)
    \/ \E t \in Tasks : TransmitOK(t)
    \/ \E t \in Tasks : TransmitFail(t)
    \/ \E t \in Tasks : BannerClear(t)

SpecReconnect == Init /\ [][ReconnectNext]_vars

\* SpecEcho: one client connection, two immediate sends whose await at line
\* 232 is two steps, and a server that sends back what it received
EchoNext ==
    \/ \E i \in Sessions : ClientConnect(i, 1)
    \/ \E i \in Sessions : ConnectOK(i)
    \/ \E i \in Sessions : S2C_Forward(i)
    \/ \E i \in Sessions : S2C_Inspect(i)
    \/ \E i \in Sessions : ServerSendFrom(i, RelayedMsgs(i), MaxMsgs)
    \/ BannerTimer
    \/ \E t \in Handlers : RequestFrom(t, {"custom"}, {1}, 2, 2)
    \/ \E t \in Tasks : TransmitWire(t)
    \/ \E t \in Tasks : TransmitResume(t)
    \/ \E t \in Tasks : BannerClear(t)

SpecEcho == Init /\ [][EchoNext]_vars

(***************************************************************************)
(* Claims about the queue helpers (checked under SpecQueue).               *)
(***************************************************************************)
GotNames(got) == [i \in 1..Len(got) |-> got[i].name]
AllSome(got) == \A i \in 1..Len(got) : got[i].some

\* C6: after Enqueue(name, n), n >= 0, followed by n Dequeue calls and no
\* other queue operation, the dequeued names are the first n entries of the
\* queue in insertion order (old entries, then the new copies of name) and
\* the queue is as long as before the Enqueue.
C6_FifoRoundTrip ==
    (qh.op = "enqueue" /\ qh.count >= 0 /\ Len(qh.got) = qh.count) =>
        /\ AllSome(qh.got)
        /\ GotNames(qh.got) = SubSeq(qh.pre \o Copies(qh.name, qh.count), 1, qh.count)
        /\ Len(ReadQueue(queueFile)) = Len(qh.pre)

\* C7: Enqueue(name, count) makes the persisted queue longer by exactly
\* max(0, count) entries and returns the length a following read observes.
C7_EnqueueLength ==
    (qh.op = "enqueue" /\ qh.got = <<>>) =>
        /\ Len(ReadQueue(queueFile)) = Len(qh.pre) + Max(0, qh.count)
        /\ qh.ret = Len(ReadQueue(queueFile))

\* a caller's dequeue_deathlink() returns
Dequeues == Len(qh'.got) = Len(qh.got) + 1

\* C23: dequeue_deathlink() on a queue that reads as empty (no file, an
\* empty file or blank lines only) returns no name and 0 and leaves the
\* file as it is; on any other queue it returns the first entry and the
\* number of entries after it, and the file then reads as the old queue
\* without its first entry.
C23_DequeueContract ==
    [][Dequeues =>
          LET queue == ReadQueue(queueFile)
              got == qh'.got[Len(qh'.got)]
          IN  IF queue = <<>>
              THEN /\ ~got.some
                   /\ got.remaining = 0
                   /\ queueFile' = queueFile
              ELSE /\ got.some
                   /\ got.name = Head(queue)
                   /\ got.remaining = Len(queue) - 1
                   /\ queueFile'.exists
                   /\ ReadQueue(queueFile') = Tail(queue)]_vars

\* C23 witness: of the queue [a, b] the first call took a and left one, the
\* second took b and left none, and the third found the queue empty
C23_Witness ==
    /\ Len(qh.got) = 3
    /\ qh.got[1] = [some |-> TRUE, name |-> NameA, remaining |-> 1]
    /\ qh.got[2] = [some |-> TRUE, name |-> NameB, remaining |-> 0]
    /\ qh.got[3] = [some |-> FALSE, name |-> <<>>, remaining |-> 0]
    /\ queueFile = FileOf(<<>>)

(***************************************************************************)
(* Claims about the relay (checked under SpecRelay and SpecSessions).      *)
(***************************************************************************)
IsPrefix(p, q) == Len(p) <= Len(q) /\ p = SubSeq(q, 1, Len(p))

RECURSIVE ClientPart(_)
ClientPart(log) ==
    IF log = <<>> THEN <<>>
    ELSE IF Head(log).from = "client" THEN <<Head(log).msg>> \o ClientPart(Tail(log))
    ELSE ClientPart(Tail(log))

\* C8: in a session, what the client has received is, unmodified and in
\* order, the messages the server sent; a message is inspected only after
\* it has been forwarded; every message server_to_client has read was
\* forwarded, whatever its content, unless the client's connection was
\* closed; and what the server has received from the client is, in order,
\* what the client sent.
C8_ForwardFirstInOrder ==
    \A i \in Sessions :
        /\ IsPrefix(cliRecv[i], srvSent[i])
        /\ s2cTaken[i] <= Len(srvSent[i])
        /\ \/ Len(cliRecv[i]) = s2cTaken[i]
           \/ /\ s2c[i] = "raised"
              /\ cliConn[i] # "open"
              /\ Len(cliRecv[i]) = s2cTaken[i] - 1
        /\ inspCount[i] <= Len(cliRecv[i])
        /\ s2c[i] = "inspect" =>
              /\ inspCount[i] = Len(cliRecv[i]) - 1
              /\ message[i] = cliRecv[i][Len(cliRecv[i])]
        /\ IsPrefix(ClientPart(srvRecv[i]), cliSent[i])

\* C8 witness: a non-JSON message and then an envelope have been forwarded
\* and the envelope awaits its inspection
C8_Witness ==
    \E i \in Sessions :
        /\ Len(cliRecv[i]) = 2
        /\ cliRecv[i][1].kind = "text"
        /\ cliRecv[i][2].kind = "list"
        /\ s2c[i] = "inspect"

\* the relay has a step of its own to take in invocation i
RelayCanStep(i) ==
    ENABLED (\/ ConnectOK(i) \/ ConnectFail(i) \/ GatherDone(i) \/ Teardown(i)
             \/ C2S_Step(i) \/ S2C_Forward(i) \/ S2C_Inspect(i))

\* C9: at most one invocation of relay_messages has its pumps running.
C9_OneSession == Cardinality({i \in Sessions : rpc[i] = "running"}) <= 1

\* C10: once the client connection or the remote connection of a session
\* is closed, the relay by itself (with no further message or close from a
\* peer) ends the session: when it has no step left to take, the session
\* is over and the globals no longer refer to it.
C10_CloseEndsSession ==
    \A i \in Sessions :
        (rpc[i] # "none" /\ (Closed(cliConn[i]) \/ Closed(srvConn[i]))
            /\ ~RelayCanStep(i))
        => (rpc[i] = "done" /\ archipelago_ws # i)

\* the DeathLink the local client sends when its player dies
ClientBounce ==
    Envelope(<<Item(TRUE, "Bounce", "deathlink", TRUE, "player", NoNonce, PlayerP)>>)

\* C21: a turn of client_to_server on a message of the client, whatever the
\* message (the client's own DeathLink bounce among them), hands it to the
\* remote connection as it is and changes neither player_death_stats nor
\* deathlink_stats, the registry, the trigger file (nor starts a task that
\* clears it), the stats snapshot or the queue file.
C21_ClientToServerBlind ==
    [][\A i \in Sessions :
          c2sTaken'[i] = c2sTaken[i] + 1 =>
              /\ srvConn[i] = "open" =>
                    srvRecv'[i] = Append(srvRecv[i], FromClient(cliSent[i][c2sTaken'[i]]))
              /\ player_death_stats' = player_death_stats
              /\ deathlink_stats' = deathlink_stats
              /\ recent_outbound' = recent_outbound
              /\ triggerFile' = triggerFile
              /\ clearTimers' = clearTimers
              /\ statsFile' = statsFile
              /\ queueFile' = queueFile]_vars

\* C21 witness: the client's DeathLink bounce has reached the server and no
\* death of a player has been counted or shown
C21_Witness ==
    \E i \in Sessions :
        /\ srvRecv[i] # <<>>
        /\ srvRecv[i][Len(srvRecv[i])] = FromClient(ClientBounce)
        /\ player_death_stats = <<>>
        /\ triggerFile = <<>>
        /\ clearTimers = 0

\* invocation i has both its connections open and both its pumps in their
\* loops
PumpsRunning(i) ==
    /\ rpc[i] = "running"
    /\ cliConn[i] = "open"
    /\ srvConn[i] = "open"
    /\ c2s[i] = "run"
    /\ s2c[i] \in {"run", "inspect"}

\* C25: while an invocation of relay_messages has both its connections open
\* and its pumps running, client_connected is set and archipelago_ws is a
\* remote connection that is open: the finally of another invocation has
\* not reset them.
C25_TeardownSparesOthers ==
    (\E i \in Sessions : PumpsRunning(i)) =>
        /\ client_connected
        /\ archipelago_ws # 0
        /\ srvConn[archipelago_ws] = "open"

(***************************************************************************)
(* Claims about the inspection of inbound messages (SpecInbound).          *)
(***************************************************************************)
\* what server_to_client is about to do with the message it has forwarded
Pending(i) ==
    InspectMessage(recent_outbound, player_death_stats, triggerFile, message[i])

\* the counts of pds2 are those of pds1, but one more for key
OneMore(pds1, pds2, key) ==
    /\ DictGet(pds2, key) = DictGet(pds1, key) + 1
    /\ \A k \in {pds1[j][1] : j \in 1..Len(pds1)} \cup {pds2[j][1] : j \in 1..Len(pds2)} :
          k # key => DictGet(pds2, k) = DictGet(pds1, k)

Registered(nonce) == \E k \in 1..Len(recent_outbound) : recent_outbound[k].nonce = nonce

\* C1: every DeathLink bounce with a record payload (and a source that is a
\* name or missing) leaves player_death_stats alone if its nonce is in the
\* registry, and counts exactly one death for its source if its nonce is
\* not in the registry and its origin is not LOCAL_BOT, whatever else is in
\* the envelope.
C1_InboundCounted ==
    \A i \in Sessions :
        s2c[i] = "inspect" =>
            \A k \in 1..Len(Pending(i).trace) :
                LET e == Pending(i).trace[k]
                IN  (Selects(e.item) = "yes" /\ e.item.source \notin {IntVal, ListVal}) =>
                        /\ Registered(e.item.nonce) => e.after = e.before
                        /\ (~Registered(e.item.nonce) /\ e.item.origin # LOCAL_BOT)
                              => OneMore(e.before, e.after, SourceOf(e.item))

\* C2: a DeathLink bounce whose origin is LOCAL_BOT changes no count of
\* player_death_stats and does not set the overlay signal, whatever its
\* nonce; a message made of such bounces only leaves player_death_stats
\* and the trigger file as they are and starts no clear-banner task.
C2_BotOriginIgnored ==
    \A i \in Sessions :
        s2c[i] = "inspect" =>
            /\ \A k \in 1..Len(Pending(i).trace) :
                  LET e == Pending(i).trace[k]
                  IN  (Selects(e.item) = "yes" /\ e.item.origin = LOCAL_BOT) =>
                          (e.after = e.before /\ ~e.signalled)
            /\ (\A k \in 1..Len(message[i].items) :
                    /\ Selects(message[i].items[k]) = "yes"
                    /\ message[i].items[k].origin = LOCAL_BOT)
               => /\ Pending(i).pds = player_death_stats
                  /\ Pending(i).trig = triggerFile
                  /\ Pending(i).timers = 0

\* C2 witness: an envelope awaits inspection in which a LOCAL_BOT bounce
\* with a nonce that is not in the (non-empty) registry is followed by
\* another player's death that will be counted
C2_Witness ==
    \E i \in Sessions :
        /\ s2c[i] = "inspect"
        /\ recent_outbound # <<>>
        /\ Len(message[i].items) = 2
        /\ Selects(message[i].items[1]) = "yes"
        /\ message[i].items[1].origin = LOCAL_BOT
        /\ ~Registered(message[i].items[1].nonce)
        /\ Pending(i).trace[2].signalled

(***************************************************************************)
(* Claims about send_deathlink (SpecSend).                                 *)
(***************************************************************************)
\* task t starts a call that gets past the connection check
Starts(t) == tpc[t] # "sending" /\ tpc'[t] = "sending"
\* the send awaited by task t completes or raises
EndsSend(t) == tpc[t] = "sending" /\ tpc'[t] # "sending"

\* the deque after is the deque before with rec appended at its end
Appended(before, after, rec) ==
    /\ after # <<>>
    /\ after[Len(after)] = rec
    /\ SubSeq(after, 1, Len(after) - 1) =
          IF Len(before) < RecentMaxLen THEN before ELSE Tail(before)

StatsOneMore(name) == OneMore(deathlink_stats, deathlink_stats', name)

\* C3, as claimed: every call made while the session is active counts one
\* for its name and appends one record, with the nonce it made (which no
\* record holds yet) and its name, to the registry.
C3_SendCountsAndRegisters ==
    [][\A t \in Tasks :
          /\ Starts(t) => StatsOneMore(call'[t].name)
          /\ EndsSend(t) =>
                /\ ~Registered(call[t].nonce)
                /\ Appended(recent_outbound, recent_outbound',
                            [nonce |-> call[t].nonce, source |-> call[t].name])]_vars

\* C3, amended: every call made while the session is active counts one for
\* its name; when its transmit succeeds it appends one record, with the
\* nonce it made (which no record holds yet) and its name, to the registry;
\* when its transmit fails it appends none and the count stays.
C3_SendCountsRegistersIfSent ==
    [][\A t \in Tasks :
          /\ Starts(t) => StatsOneMore(call'[t].name)
          /\ (EndsSend(t) /\ call'[t].outcome = "transmitted") =>
                /\ ~Registered(call[t].nonce)
                /\ Appended(recent_outbound, recent_outbound',
                            [nonce |-> call[t].nonce, source |-> call[t].name])
                /\ deathlink_stats' = deathlink_stats
          /\ (EndsSend(t) /\ call'[t].outcome # "transmitted") =>
                /\ call'[t].outcome = "failed"
                /\ recent_outbound' = recent_outbound
                /\ deathlink_stats' = deathlink_stats]_vars

\* C3 witness: a second call for the same name has transmitted: the count is
\* 2 and the registry ends with its record
C3_Witness ==
    \E t \in Tasks :
        /\ call[t].outcome = "transmitted"
        /\ DictGet(deathlink_stats, call[t].name) = 2
        /\ Len(recent_outbound) = 2
        /\ recent_outbound[2] = [nonce |-> call[t].nonce, source |-> call[t].name]

\* handler t serves a request that calls send_deathlink while the session
\* is inactive
CallsInactive(t) ==
    /\ requests' = requests + 1
    /\ req'[t].n = requests'
    /\ req'[t].total > 0
    /\ ~Active

\* C4: a call made while the session is inactive or the remote connection
\* is absent is refused: nothing is transmitted, and the contributor stats,
\* the registry, the overlay signal and the stats snapshot stay as they
\* are; the queue changes only by what the calling handler itself appends
\* after the call (total - 1 entries).
C4_InactiveSendIsNoOp ==
    [][\A t \in Handlers :
          CallsInactive(t) =>
              /\ call'[t].outcome = "refused"
              /\ srvRecv' = srvRecv
              /\ deathlink_stats' = deathlink_stats
              /\ recent_outbound' = recent_outbound
              /\ triggerFile' = triggerFile
              /\ statsFile' = statsFile
              /\ nextNonce' = nextNonce
              /\ ReadQueue(queueFile') =
                    ReadQueue(queueFile) \o Copies(req'[t].user, req'[t].total - 1)]_vars

\* C4 witness: a call has been refused after an earlier call had counted
\* and registered a death
C4_Witness ==
    \E t \in Handlers :
        /\ call[t].outcome = "refused"
        /\ ~Active
        /\ recent_outbound # <<>>
        /\ deathlink_stats # <<>>

\* C5: the value send_deathlink returns after refusing a call differs from
\* the value it returns after transmitting.
C5_OutcomeReported ==
    \A v \in {r[2] : r \in returned} :
        ~(<<"refused", v>> \in returned /\ <<"transmitted", v>> \in returned)

(***************************************************************************)
(* Claims about the dispatcher and failures (SpecSend, SpecInbound).       *)
(***************************************************************************)
Queue == ReadQueue(queueFile)

\* C17: when the dispatcher dequeues an entry while no client is connected
\* (the only step that rewrites the queue file and is no step of a handler),
\* the head of the queue is removed and nothing else happens: the entry is
\* not transmitted, not counted, not registered, not put back, and the
\* dispatcher is at the start of its loop again.
C17_DropOnDisconnect ==
    [][(~client_connected /\ tpc["disp"] = "loop" /\ queueFile' # queueFile
           /\ requests' = requests /\ tpc' = tpc) =>
          /\ Queue' = Tail(Queue)
          /\ srvRecv' = srvRecv
          /\ deathlink_stats' = deathlink_stats
          /\ recent_outbound' = recent_outbound
          /\ triggerFile' = triggerFile
          /\ call' = call
          /\ tpc'["disp"] = "loop"]_vars

\* C17 witness: the entry a former run left in the queue file is gone and
\* nothing has been sent, counted or registered
C17_Witness ==
    /\ queueFile # NoFile
    /\ Queue = <<>>
    /\ requests = 0
    /\ deathlink_stats = <<>>
    /\ recent_outbound = <<>>
    /\ \A i \in Sessions : srvRecv[i] = <<>>
    /\ call["disp"] = NoCall

\* C18: when the send of a call raises, the call ends there and its caller
\* goes on (the dispatcher is at the start of its loop, a handler is idle);
\* the count of the name keeps the increment of the call, and the
\* registry, the overlay signal and the stats snapshot stay as they are.
C18_TransmitFailureContained ==
    [][\A t \in Tasks :
          (EndsSend(t) /\ call'[t].outcome = "failed") =>
              /\ tpc'[t] = IF t = "disp" THEN "loop" ELSE "idle"
              /\ deathlink_stats' = deathlink_stats
              /\ DictGet(deathlink_stats', call[t].name) >= 1
              /\ recent_outbound' = recent_outbound
              /\ triggerFile' = triggerFile
              /\ statsFile' = statsFile
              /\ srvRecv' = srvRecv]_vars

\* C18 witness: the dispatcher's send has failed: it is back in its loop,
\* the name is counted once and the registry is empty
C18_Witness ==
    /\ call["disp"].outcome = "failed"
    /\ tpc["disp"] = "loop"
    /\ DictGet(deathlink_stats, call["disp"].name) = 1
    /\ recent_outbound = <<>>
    /\ triggerFile = <<>>

\* C19: while both connections of a running session are open, whatever the
\* server has sent, server_to_client is in its loop, the session is active,
\* every message taken has been forwarded and every message but the one
\* being inspected has been inspected, and a message not yet taken can be.
C19_MalformedKeepsLoop ==
    \A i \in Sessions :
        (rpc[i] = "running" /\ cliConn[i] = "open" /\ srvConn[i] = "open") =>
            /\ s2c[i] \in {"run", "inspect"}
            /\ Active
            /\ Len(cliRecv[i]) = s2cTaken[i]
            /\ inspCount[i] = IF s2c[i] = "inspect" THEN s2cTaken[i] - 1 ELSE s2cTaken[i]
            /\ (s2c[i] = "run" /\ s2cTaken[i] < Len(srvSent[i])) => ENABLED S2C_Forward(i)

\* C19 witness: an envelope whose inspection raised has been forwarded and
\* inspected, and so has the death of another player sent after it, which
\* is counted
C19_Witness ==
    \E i \in Sessions :
        /\ Len(cliRecv[i]) = 2
        /\ inspCount[i] = 2
        /\ cliRecv[i][1].kind = "list"
        /\ Selects(cliRecv[i][1].items[1]) = "raise"
        /\ cliRecv[i][2] = Envelope(<<Bounced("player", ForeignNonce, PlayerP)>>)
        /\ DictGet(player_death_stats, PlayerP) = 1

(***************************************************************************)
(* Claims about the draining of the queue (SpecDrain).                     *)
(***************************************************************************)
\* the source names of the bounces the server has received from the bot
RECURSIVE BotNames(_)
BotNames(log) ==
    IF log = <<>> THEN <<>>
    ELSE IF Head(log).from = "bot"
         THEN <<Head(log).msg.items[1].source>> \o BotNames(Tail(log))
         ELSE BotNames(Tail(log))

\* the name the dispatcher is about to transmit
InFlight == IF tpc["disp"] = "sending" THEN <<call["disp"].name>> ELSE <<>>

\* what has been transmitted, what is being transmitted, what is queued
Drained(i) == BotNames(srvRecv[i]) \o InFlight \o Queue

\* C11: with the session active and no Enqueue, every step keeps the
\* sequence "transmitted, in transmission, queued": an entry leaves the
\* queue at its head, one at a time, and is transmitted once, after all
\* entries that were ahead of it, until the queue is empty.
C11_DrainInOrder ==
    [][\A i \in Sessions :
          (Active /\ archipelago_ws = i) =>
              /\ Drained(i)' = Drained(i)
              /\ Len(InFlight') + Len(Queue') <= Len(InFlight) + Len(Queue)
              /\ Len(BotNames(srvRecv[i])') <= Len(BotNames(srvRecv[i])) + 1]_vars

\* C11 witness: the queue [a, a, b] has been transmitted as a, a, b and is
\* empty, the file still being there
C11_Witness ==
    \E i \in Sessions :
        /\ BotNames(srvRecv[i]) = <<NameA, NameA, NameB>>
        /\ queueFile = FileOf(<<>>)
        /\ tpc["disp"] = "loop"
        /\ deathlink_stats = <<<<NameA, 2>>, <<NameB, 1>>>>

(***************************************************************************)
(* Claims about the capacity of the registry (SpecRegistry).               *)
(***************************************************************************)
\* the records of all bounces transmitted on connection i, oldest first
RECURSIVE BotRecords(_)
BotRecords(log) ==
    IF log = <<>> THEN <<>>
    ELSE IF Head(log).from = "bot"
         THEN <<[nonce |-> Head(log).msg.items[1].nonce,
                 source |-> Head(log).msg.items[1].source]>> \o BotRecords(Tail(log))
         ELSE BotRecords(Tail(log))

\* the n newest elements of q
Newest(q, n) == IF Len(q) <= n THEN q ELSE SubSeq(q, Len(q) - n + 1, Len(q))

NoncesOf(q) == {q[k].nonce : k \in 1..Len(q)}

\* C13: the registry never holds more records than its capacity: it holds
\* the newest of the records transmitted, up to the capacity, oldest first;
\* an inbound bounce with another origin than LOCAL_BOT is taken for an
\* echo when its nonce is one of these, and is counted as a player's death
\* when its nonce is one that has been transmitted and evicted.
C13_RegistryCapacity ==
    /\ Len(recent_outbound) <= RecentMaxLen
    /\ \A i \in Sessions :
          /\ archipelago_ws = i =>
                recent_outbound = Newest(BotRecords(srvRecv[i]), RecentMaxLen)
          /\ s2c[i] = "inspect" =>
                \A k \in 1..Len(Pending(i).trace) :
                    LET e == Pending(i).trace[k]
                        all == BotRecords(srvRecv[i])
                    IN  (Selects(e.item) = "yes" /\ e.item.origin # LOCAL_BOT) =>
                            /\ e.item.nonce \in NoncesOf(Newest(all, RecentMaxLen))
                                  => (e.after = e.before /\ ~e.signalled)
                            /\ e.item.nonce \in NoncesOf(all) \ NoncesOf(Newest(all, RecentMaxLen))
                                  => OneMore(e.before, e.after, SourceOf(e.item))

\* C13 witness: one record more than the registry holds has been
\* transmitted, and the echo of the first one is about to be counted as a
\* player's death
C13_Witness ==
    \E i \in Sessions :
        /\ s2c[i] = "inspect"
        /\ Len(BotRecords(srvRecv[i])) = RecentMaxLen + 1
        /\ Len(recent_outbound) = RecentMaxLen
        /\ message[i].items[1].nonce = BotRecords(srvRecv[i])[1].nonce
        /\ Pending(i).trace[1].signalled

(***************************************************************************)
(* Claims about requests and the queue (SpecTrigger, SpecSend).            *)
(***************************************************************************)
\* handler t takes a request that asks for at least one death
Triggered(t) ==
    /\ requests' = requests + 1
    /\ req'[t].n = requests'
    /\ req'[t].total > 0

\* handler t is past its call of send_deathlink and responds
Responds(t) ==
    \/ Triggered(t) /\ tpc'[t] = "idle"
    \/ tpc[t] \in {"sending", "banner"} /\ tpc'[t] = "idle"

\* C14: a request for N > 0 deaths makes one call of send_deathlink for its
\* user, at once (with an active session the call sends one bounce with
\* that user as source), and when the call has returned the queue is longer
\* by N - 1 entries of that user at its end, whether or not the session is
\* active.
C14_OneNowRestQueued ==
    [][\A t \in Handlers :
          /\ Triggered(t) =>
                /\ call'[t].name = req'[t].user
                /\ call'[t].outcome = IF Active THEN "pending" ELSE "refused"
          /\ (EndsSend(t) /\ call'[t].outcome = "transmitted") =>
                /\ BotNames(srvRecv[call[t].ws])' =
                      Append(BotNames(srvRecv[call[t].ws]), req[t].user)
          /\ Responds(t) =>
                Queue' = Queue \o Copies(req'[t].user, req'[t].total - 1)]_vars

\* C15: the queue changes only by an Enqueue of a handler, which adds its
\* entries at the end, and by a Dequeue of the dispatcher, which takes the
\* entry at the head; every Enqueue adds all its entries, whatever has been
\* dequeued while the handler was waiting for its send.
C15_NoLostUpdate ==
    [][/\ \A t \in Handlers :
             Responds(t) => Queue' = Queue \o Copies(req'[t].user, req'[t].total - 1)
       /\ (\A t \in Handlers : ~Responds(t)) =>
             \/ Queue' = Queue
             \/ /\ tpc["disp"] = "loop"
                /\ Queue # <<>>
                /\ Queue' = Tail(Queue)
                /\ tpc'["disp"] = "sending" => call'["disp"].name = Head(Queue)]_vars

\* C16: the dispatcher starts a send only when no send is in flight: no
\* task is waiting for its send or for the end of the overlay window of a
\* send it has transmitted.
C16_OneSendInFlight ==
    [][Starts("disp") => \A t \in Tasks : tpc[t] \notin {"sending", "banner"}]_vars

(***************************************************************************)
(* Claims about the overlay signal (SpecOverlay).                          *)
(***************************************************************************)
\* C20: whenever the trigger file holds a name, a later state has it empty,
\* whether the name was written by send_deathlink or for an inbound death
\* and whether or not the session has ended since.
C20_OverlayCleared == (triggerFile # <<>>) ~> (triggerFile = <<>>)

\* C20 witness: the name of an inbound death is in the trigger file, its
\* clear-banner task is asleep, and the session has ended
C20_Witness ==
    \E i \in Sessions :
        /\ triggerFile = PlayerP
        /\ clearTimers > 0
        /\ rpc[i] = "done"
        /\ ~Active

(***************************************************************************)
(* Claims about a new session after an old one (SpecReconnect).            *)
(***************************************************************************)
\* the upstream handshake of invocation i succeeds
Handshake(i) == rpc[i] = "connecting" /\ rpc'[i] = "running"

\* a bounce of the bot reaches the server on connection i
TransmitsOn(i) == Len(BotNames(srvRecv[i])') = Len(BotNames(srvRecv[i])) + 1

\* C22: when an earlier session has ended (by a close or a failure of either
\* connection, or of the handshake) and the handshake of a connection made
\* after that succeeds, the session is active and archipelago_ws is the new
\* remote connection, which is open; a call of send_deathlink started from
\* then on uses that connection; and a bounce is only ever transmitted on
\* the connection of the session that is running, never on that of a
\* session that has ended.
C22_FreshSessionAfterEnd ==
    [][/\ \A i \in Sessions :
             (Handshake(i) /\ \E j \in Sessions : rpc[j] = "done") =>
                 /\ Active'
                 /\ archipelago_ws' = i
                 /\ srvConn'[i] = "open"
       /\ \A t \in Tasks :
             Starts(t) =>
                 /\ call'[t].ws = archipelago_ws
                 /\ rpc[call'[t].ws] \in {"running", "closing"}
                 /\ \A j \in Sessions : j # call'[t].ws => rpc[j] \in {"none", "done"}
       /\ \A i \in Sessions :
             TransmitsOn(i) =>
                 /\ rpc[i] = "running"
                 /\ archipelago_ws = i
                 /\ \A j \in Sessions : j # i => rpc[j] \in {"none", "done"}
       /\ \A i \in Sessions :
             rpc[i] = "done" => srvRecv'[i] = srvRecv[i]]_vars

\* C22 witness: a bounce was transmitted in the first session, that session
\* has ended, and a bounce has been transmitted on the connection of the
\* second session, which is active
C22_Witness ==
    /\ rpc[1] = "done"
    /\ rpc[2] = "running"
    /\ Active
    /\ archipelago_ws = 2
    /\ Len(BotNames(srvRecv[1])) = 1
    /\ Len(BotNames(srvRecv[2])) = 1

(***************************************************************************)
(* Claims about echoes and the await of the send (SpecEcho).               *)
(***************************************************************************)
\* item is a bounce the bot transmitted on connection i, as the server
\* relays it
EchoOfSent(i, item) == \E it \in BotItems(i) : item = Relayed(it)

\* C24: a bounce send_deathlink has transmitted, when the server sends it
\* back, is reached by the inspection and neither counted in
\* player_death_stats nor shown, whether the task that sent it has already
\* appended the nonce to the registry or still waits at the await of the
\* send; so no name of a contributor is ever counted as a player's death.
C24_EchoNeverCounted ==
    /\ \A i \in Sessions :
          s2c[i] = "inspect" =>
              \A k \in 1..Len(Pending(i).trace) :
                  LET e == Pending(i).trace[k]
                  IN  EchoOfSent(i, e.item) =>
                          (e.reached /\ e.after = e.before /\ ~e.signalled)
    /\ \A u \in Users : DictGet(player_death_stats, u) = 0

\* C24 witness: the echo of a bounce is about to be inspected while the
\* task that sent it still waits at the await and its nonce is in no
\* record, a death of another player having been counted before
C24_Witness ==
    \E i \in Sessions, t \in Tasks :
        /\ s2c[i] = "inspect"
        /\ tpc[t] = "wired"
        /\ ~Registered(call[t].nonce)
        /\ message[i] = Envelope(<<Bounced(LOCAL_BOT, call[t].nonce, call[t].name)>>)
        /\ DictGet(player_death_stats, PlayerP) = 1

(***************************************************************************)
(* Claims about the pace of the dispatcher (SpecPace).                     *)
(***************************************************************************)
\* C12, as claimed: the time between two consecutive transmissions of the
\* dispatcher is at least min_dispatch_seconds and at most the larger of
\* min_dispatch_seconds and max_dispatch_seconds.
C12_GapWithinConfig ==
    ph.gap >= 0 =>
        /\ ph.min <= ph.gap
        /\ ph.gap <= Max(ph.min, ph.max)

\* C12, amended: the pause of the dispatcher is at least
\* min_dispatch_seconds and at most the larger of min_dispatch_seconds and
\* max_dispatch_seconds, so exactly min_dispatch_seconds when the two are
\* inverted; the time between two consecutive transmissions is the pause
\* and the 4 seconds send_deathlink sleeps before it returns.
C12_PauseWithinConfig ==
    /\ ph.pause >= 0 =>
          /\ ph.min <= ph.pause
          /\ ph.pause <= Max(ph.min, ph.max)
          /\ ph.max < ph.min => ph.pause = ph.min
    /\ ph.gap >= 0 =>
          /\ ph.gap >= ph.min + 4
          /\ ph.gap <= Max(ph.min, ph.max) + 4
          /\ tpc["disp"] = "banner" => ph.gap = ph.pause + 4

\* C12 witness: with min 480 and max 240 the dispatcher has transmitted
\* twice, 480 + 4 seconds apart
C12_Witness ==
    /\ ph.min = 480
    /\ ph.max = 240
    /\ ph.pause = 480
    /\ ph.gap = 484

====
